---- MODULE Spec2Model ----
(***************************************************************************)
(* State-machine model of MidiPerformer (src/src/midi_performer.py): the   *)
(* record / playback engine, the button debouncing of Button.update and    *)
(* Button.is_released, the playback visual-press timer and MIDI load/save. *)
(* One action per event handler of handle_events, one for update(), and    *)
(* environment actions for the clock and the mixer.                        *)
(***************************************************************************)
EXTENDS Integers, Sequences, FiniteSets, TLC

VARIABLES
    now,                    \* pygame.time.get_ticks()
    is_recording,           \* MidiPerformer.is_recording
    is_playing_back,        \* MidiPerformer.is_playing_back
    recorded_track,         \* MidiPerformer.recorded_track: list of (timestamp, note)
    recording_start_time,   \* MidiPerformer.recording_start_time
    playback_start_time,    \* MidiPerformer.playback_start_time
    playback_note_index,    \* MidiPerformer.playback_note_index
    current_file_name,      \* MidiPerformer.current_file_name
    note_duration_ms,       \* MidiPerformer.note_duration_ms
    sound_cache,            \* MidiPerformer.sound_cache: (note, duration_ms) -> Sound
    is_active,              \* Button.is_active of every button
    state,                  \* Button.state of every button
    key_pressed,            \* Button.key_pressed of every button
    playback_pressed,       \* Button.playback_pressed of every button
    timer,                  \* the pending PLAYBACK_NOTE_OFF_EVENT timer
    mixer_busy,             \* pygame.mixer.get_busy(): some channel is playing
    disk,                   \* the file the last successful mid.save wrote
    master_volume,          \* MidiPerformer.master_volume, in percent
    tone,                   \* a call of SynthGenerator.generate_tone and its outcome
    saved_log,              \* history: the log that save encoded
    pressed_by,             \* history: why Button.update last found each button pressed
    last                    \* history: what the last step did

vars == <<now, is_recording, is_playing_back, recorded_track,
          recording_start_time, playback_start_time, playback_note_index,
          current_file_name, note_duration_ms, sound_cache, is_active, state,
          key_pressed, playback_pressed, timer, mixer_busy, disk,
          master_volume, tone, saved_log, pressed_by, last>>

----------------------------------------------------------------------------
(* Bounds of the model *)

\* the clock advances while it is below this
MaxTime == 200
\* the same for a whole playback, which a sustained last note makes long
MaxPlayTime == 2500
\* longest log a recording may build
MaxLen == 2
\* the clock reading when the saving and loading starts
CodecTime == 2000

\* amounts by which the clock advances between two handlers
ClockSteps == {200}

\* the same, coarser, for a whole playback
PlayClockSteps == {500}

----------------------------------------------------------------------------
(* Program constants *)

\* pygame.time.set_timer(event, 200, 1)
VisualPressMs == 200
\* note_duration_ms without sustain
DefaultDurationMs == 1000
\* note_duration_ms with sustain
SustainDurationMs == 2000
\* ticks_per_beat of save and load
TicksPerBeat == 480
\* velocity of every note_on _save_midi_file writes
NoteOnVelocity == 100
\* 60 * 1000000 // bpm with bpm = 120
DefaultTempo == 500000

\* the piano keys modelled, a part of start_midi..end_midi (60..84)
\* MidiPerformer.start_midi and end_midi: the piano has the keys 60..84
start_midi == 60

end_midi == 84

Notes == {60, 61}

KeyButton(n) == IF n = 60 THEN "key60" ELSE "key61"

\* self.buttons in creation order
ButtonOrder == <<"record", "play", "stop", "save", "load", "sustain",
                 "key60", "key61">>

Buttons == {ButtonOrder[i] : i \in 1..Len(ButtonOrder)}

KeyButtons == {KeyButton(n) : n \in Notes}

\* Button.midi_note of a piano key
MidiNote(b) == IF b = "key60" THEN 60 ELSE 61

\* Button.is_toggle
IsToggle(b) == b \in {"record", "play", "sustain"}

\* self.note_to_button
NoteHasButton(n) == n \in Notes

\* the mouse position, as the set of button rects that contain it;
\* the positions the mouse visits while recording and playing the piano
MousePositions == {{}, {"record"}, {"play"}, {"stop"}, {"key60"}}

\* the positions the mouse visits while loading, saving, recording and playing
FilePositions == {{}, {"record"}, {"play"}, {"stop"}, {"load"}, {"save"}}

\* the positions the mouse visits while a loaded song plays
PlayPositions == {{}, {"play"}, {"sustain"}}

\* the keyboard keys pressed while recording, by their note
PlayedNotes == {60}

\* master_volume = 0.8 at start-up, in percent
DefaultVolume == 80

\* no call of generate_tone was made
NoTone == [called |-> FALSE]

\* the initial self.current_file_name (the source literal is the Chinese for
\* "unnamed", with the .mid suffix)
DefaultFileName == "unnamed.mid"

NoTimer == [note |-> 0, due |-> 0]

\* history of one step: what the playback branch of update() did ("idle" when
\* nothing was playing or no update() ran, else "wait", "fired" or "ended"),
\* the buttons whose handle_click ran, the message box shown
NoAction == [sched |-> "idle", clicked |-> {}, dialog |-> "none", played |-> {}]

\* the empty dict
EmptyCache == [k \in {} |-> 0]

----------------------------------------------------------------------------
(* MIDI files offered by the file dialog *)

NoteOn(t, n, v) == [type |-> "note_on", time |-> t, note |-> n, velocity |-> v, tempo |-> 0]

NoteOff(t, n) == [type |-> "note_off", time |-> t, note |-> n, velocity |-> 0, tempo |-> 0]

SetTempo(t, mpb) == [type |-> "set_tempo", time |-> t, note |-> 0, velocity |-> 0, tempo |-> mpb]

\* the end_of_track meta message mid.save closes every track with
EndOfTrack == [type |-> "end_of_track", time |-> 0, note |-> 0, velocity |-> 0, tempo |-> 0]

\* readable = FALSE: MidiFile(file_path) raises (missing file, not a MIDI file)
Unreadable == [readable |-> FALSE, ticks_per_beat |-> TicksPerBeat, tracks |-> <<>>]

\* a well-formed header that declares no track
NoTrackFile == [readable |-> TRUE, ticks_per_beat |-> TicksPerBeat, tracks |-> <<>>]

\* a track without any note
SilentFile == [readable |-> TRUE, ticks_per_beat |-> TicksPerBeat,
               tracks |-> << <<SetTempo(0, DefaultTempo)>> >>]

\* a song of two notes, 200 ms apart at 120 BPM; note 40 is below the piano
SongFile == [readable |-> TRUE, ticks_per_beat |-> TicksPerBeat,
             tracks |-> << <<SetTempo(0, DefaultTempo), NoteOn(0, 60, 100),
                             NoteOn(192, 40, 100), NoteOff(0, 60), NoteOff(0, 40)>> >>]

\* one note at time 0
OneNoteFile == [readable |-> TRUE, ticks_per_beat |-> TicksPerBeat,
                tracks |-> << <<SetTempo(0, DefaultTempo), NoteOn(0, 60, 100),
                                NoteOff(0, 60)>> >>]

\* a note_off that carries the time between two notes: 200 ms from the first
\* note_on to the second
GapFile == [readable |-> TRUE, ticks_per_beat |-> TicksPerBeat,
            tracks |-> << <<SetTempo(0, DefaultTempo), NoteOn(0, 60, 100),
                            NoteOff(96, 60), NoteOn(96, 64, 100), NoteOff(96, 64),
                            EndOfTrack>> >>]

\* a tempo change in mid-stream, from 120 to 240 BPM after the second note
TempoFile == [readable |-> TRUE, ticks_per_beat |-> TicksPerBeat,
              tracks |-> << <<NoteOn(0, 60, 100), NoteOn(480, 64, 100),
                              SetTempo(0, 250000), NoteOn(480, 67, 100),
                              NoteOff(0, 60), NoteOff(0, 64), NoteOff(0, 67),
                              EndOfTrack>> >>]

\* a header with 960 ticks per beat: the second note is 500 ms after the first
FastFile == [readable |-> TRUE, ticks_per_beat |-> 2 * TicksPerBeat,
             tracks |-> << <<SetTempo(0, DefaultTempo), NoteOn(0, 60, 100),
                             NoteOn(960, 64, 100), NoteOff(0, 60), NoteOff(0, 64),
                             EndOfTrack>> >>]

\* a chord: two neighbouring keys struck together
ChordFile == [readable |-> TRUE, ticks_per_beat |-> TicksPerBeat,
              tracks |-> << <<SetTempo(0, DefaultTempo), NoteOn(0, 60, 100),
                              NoteOn(0, 61, 100), NoteOff(0, 60), NoteOff(0, 61),
                              EndOfTrack>> >>]

Files == {Unreadable, NoTrackFile, SilentFile, SongFile}

\* the files the decoder is tried on, besides the one save wrote
CodecFiles == {SongFile, GapFile, TempoFile, FastFile}

\* the files chosen for playback
PlayFiles == {OneNoteFile, SongFile}

\* the path each file is chosen by in the Load dialog (os.path.basename of it)
PathOf(f) ==
    IF f = Unreadable THEN "bad.mid"
    ELSE IF f = NoTrackFile THEN "empty.mid"
    ELSE IF f = SilentFile THEN "silent.mid"
    ELSE IF f = OneNoteFile THEN "one.mid"
    ELSE IF f = SongFile THEN "song.mid"
    ELSE IF f = GapFile THEN "gap.mid"
    ELSE IF f = TempoFile THEN "tempo.mid"
    ELSE IF f = FastFile THEN "fast.mid"
    ELSE IF f = ChordFile THEN "chord.mid"
    ELSE "a.mid"

\* the paths typed into the Save dialog
FileNames == {"a.mid"}

\* results of the file dialogs: path = "" is a cancelled dialog
NoDialog == [path |-> "", file |-> Unreadable, write_ok |-> FALSE]

LoadDialogs(files) ==
    {NoDialog} \cup
    {[path |-> PathOf(f), file |-> f, write_ok |-> FALSE] : f \in files}

SaveDialogs == {NoDialog} \cup
               {[path |-> p, file |-> Unreadable, write_ok |-> w] : p \in FileNames, w \in BOOLEAN}

\* the dialogs a click at mouse_pos can open, with files to choose from
Dialogs(mouse_pos, files) ==
    IF "load" \in mouse_pos THEN LoadDialogs(files)
    ELSE IF "save" \in mouse_pos THEN SaveDialogs
    ELSE {NoDialog}

----------------------------------------------------------------------------
(* The program state as one record, so that handlers compose *)

Self == [now |-> now,
         is_recording |-> is_recording,
         is_playing_back |-> is_playing_back,
         recorded_track |-> recorded_track,
         recording_start_time |-> recording_start_time,
         playback_start_time |-> playback_start_time,
         playback_note_index |-> playback_note_index,
         current_file_name |-> current_file_name,
         note_duration_ms |-> note_duration_ms,
         sound_cache |-> sound_cache,
         is_active |-> is_active,
         state |-> state,
         key_pressed |-> key_pressed,
         playback_pressed |-> playback_pressed,
         timer |-> timer,
         mixer_busy |-> mixer_busy,
         disk |-> disk,
         master_volume |-> master_volume,
         tone |-> tone,
         saved_log |-> saved_log,
         pressed_by |-> pressed_by,
         last |-> last]

Commit(s) ==
    /\ now' = s.now
    /\ is_recording' = s.is_recording
    /\ is_playing_back' = s.is_playing_back
    /\ recorded_track' = s.recorded_track
    /\ recording_start_time' = s.recording_start_time
    /\ playback_start_time' = s.playback_start_time
    /\ playback_note_index' = s.playback_note_index
    /\ current_file_name' = s.current_file_name
    /\ note_duration_ms' = s.note_duration_ms
    /\ sound_cache' = s.sound_cache
    /\ is_active' = s.is_active
    /\ state' = s.state
    /\ key_pressed' = s.key_pressed
    /\ playback_pressed' = s.playback_pressed
    /\ timer' = s.timer
    /\ mixer_busy' = s.mixer_busy
    /\ disk' = s.disk
    /\ master_volume' = s.master_volume
    /\ tone' = s.tone
    /\ saved_log' = s.saved_log
    /\ pressed_by' = s.pressed_by
    /\ last' = s.last

\* the state a step starts from, its history empty
Begin == [Self EXCEPT !.last = NoAction]

----------------------------------------------------------------------------
(* Click handlers *)

\* mutant of _on_record_click: playback is not stopped
OnRecordClick_KeepsPlaying(s, active) ==
    IF active
    THEN [s EXCEPT !.is_recording = TRUE,
                   !.recorded_track = <<>>,
                   !.recording_start_time = s.now]
    ELSE [s EXCEPT !.is_recording = FALSE]

\* mutant of _on_record_click: the old log is not cleared
OnRecordClick_KeepsLog(s, active) ==
    IF active
    THEN [s EXCEPT !.is_recording = TRUE,
                   !.is_playing_back = FALSE,
                   !.is_active["play"] = FALSE,
                   !.recording_start_time = s.now]
    ELSE [s EXCEPT !.is_recording = FALSE]

\* MidiPerformer._on_record_click
OnRecordClick(s, active) ==
    IF active
    THEN [s EXCEPT !.is_recording = TRUE,
                   !.is_playing_back = FALSE,
                   !.is_active["play"] = FALSE,
                   !.recorded_track = <<>>,
                   !.recording_start_time = s.now]
    ELSE [s EXCEPT !.is_recording = FALSE]

\* mutant of _on_play_click: the recorder is not stopped
OnPlayClick_KeepsRecording(s, active) ==
    IF active
    THEN IF s.recorded_track = <<>>
         THEN [s EXCEPT !.is_active["play"] = FALSE]
         ELSE [s EXCEPT !.is_playing_back = TRUE,
                        !.playback_start_time = s.now,
                        !.playback_note_index = 0]
    ELSE [s EXCEPT !.is_playing_back = FALSE]

\* mutant of _on_play_click: no check for an empty log
OnPlayClick_StartsOnEmpty(s, active) ==
    IF active
    THEN [s EXCEPT !.is_playing_back = TRUE,
                   !.is_recording = FALSE,
                   !.is_active["record"] = FALSE,
                   !.playback_start_time = s.now,
                   !.playback_note_index = 0]
    ELSE [s EXCEPT !.is_playing_back = FALSE]

\* MidiPerformer._on_play_click
OnPlayClick(s, active) ==
    IF active
    THEN IF s.recorded_track = <<>>
         THEN [s EXCEPT !.is_active["play"] = FALSE]
         ELSE [s EXCEPT !.is_playing_back = TRUE,
                        !.is_recording = FALSE,
                        !.is_active["record"] = FALSE,
                        !.playback_start_time = s.now,
                        !.playback_note_index = 0]
    ELSE [s EXCEPT !.is_playing_back = FALSE]

\* MidiPerformer._on_stop_click
\* mutant of the Stop handler: the log is discarded
OnStopClick_ClearsLog(s, active) ==
    [s EXCEPT !.is_recording = FALSE,
              !.is_playing_back = FALSE,
              !.is_active["record"] = FALSE,
              !.is_active["play"] = FALSE,
              !.recorded_track = <<>>,
              !.mixer_busy = FALSE]

\* mutant of the Stop handler: the indicators of Record and Play stay lit
OnStopClick_KeepsIndicators(s, active) ==
    [s EXCEPT !.is_recording = FALSE,
              !.is_playing_back = FALSE,
              !.mixer_busy = FALSE]

OnStopClick(s, active) ==
    [s EXCEPT !.is_recording = FALSE,
              !.is_playing_back = FALSE,
              !.is_active["record"] = FALSE,
              !.is_active["play"] = FALSE,
              !.mixer_busy = FALSE]

\* MidiPerformer._on_sustain_click
OnSustainClick(s, active) ==
    [s EXCEPT !.note_duration_ms = IF active THEN SustainDurationMs ELSE DefaultDurationMs]

\* int((msg.time / ticks_per_beat) * (microseconds_per_beat / 1000000) * 1000)
\* with ticks_per_beat = 480: the product truncated to an integer (for the tempi
\* 500000 and 250000 of the model's files the double arithmetic gives exactly
\* this for every delta below 5000 ticks)
TicksToMs(ticks, mpb) == (ticks * mpb) \div (TicksPerBeat * 1000)

\* mutant of the decode loop: a tempo event rescales the times decoded so far
RECURSIVE DecodeFrom_Retroactive(_, _, _, _, _)
DecodeFrom_Retroactive(msgs, i, mpb, current_time_ms, track) ==
    IF i > Len(msgs) THEN track
    ELSE LET msg == msgs[i] IN
         IF msg.type = "set_tempo"
         THEN DecodeFrom_Retroactive(msgs, i + 1, msg.tempo,
                  (current_time_ms * msg.tempo) \div mpb,
                  [j \in 1..Len(track) |->
                      <<(track[j][1] * msg.tempo) \div mpb, track[j][2]>>])
         ELSE IF msg.type = "note_on" /\ msg.velocity > 0
         THEN LET t == current_time_ms + TicksToMs(msg.time, mpb)
              IN DecodeFrom_Retroactive(msgs, i + 1, mpb, t, Append(track, <<t, msg.note>>))
         ELSE DecodeFrom_Retroactive(msgs, i + 1, mpb, current_time_ms, track)

\* the loop over mid.tracks[0] of _load_midi_file, from message i on
RECURSIVE DecodeFrom(_, _, _, _, _)
DecodeFrom(msgs, i, mpb, current_time_ms, track) ==
    IF i > Len(msgs) THEN track
    ELSE LET msg == msgs[i] IN
         IF msg.type = "set_tempo"
         THEN DecodeFrom(msgs, i + 1, msg.tempo, current_time_ms, track)
         ELSE IF msg.type = "note_on" /\ msg.velocity > 0
         THEN LET t == current_time_ms + TicksToMs(msg.time, mpb)
              IN DecodeFrom(msgs, i + 1, mpb, t, Append(track, <<t, msg.note>>))
         ELSE DecodeFrom(msgs, i + 1, mpb, current_time_ms, track)

Decode(msgs) == DecodeFrom(msgs, 1, DefaultTempo, 0, <<>>)

\* mutant of _load_midi_file: the old log is not cleared before the decode
LoadMidiFile_Merges(s, dlg) ==
    IF ~dlg.file.readable
    THEN [s EXCEPT !.last.dialog = "load_failed"]
    ELSE LET stopped == OnStopClick(s, TRUE)
         IN IF dlg.file.tracks = <<>>
            THEN [stopped EXCEPT !.last.dialog = "load_failed"]
            ELSE [stopped EXCEPT !.recorded_track = @ \o Decode(dlg.file.tracks[1]),
                                 !.current_file_name = dlg.path,
                                 !.last.dialog = "load_ok"]

\* mutant of the load: playback and recording go on over the new log
LoadMidiFile_KeepsPlaying(s, dlg) ==
    IF ~dlg.file.readable
    THEN [s EXCEPT !.last.dialog = "load_failed"]
    ELSE LET cleared == [s EXCEPT !.recorded_track = <<>>]
         IN IF dlg.file.tracks = <<>>
            THEN [cleared EXCEPT !.last.dialog = "load_failed"]
            ELSE [cleared EXCEPT !.recorded_track = Decode(dlg.file.tracks[1]),
                                 !.current_file_name = dlg.path,
                                 !.last.dialog = "load_ok"]

\* MidiPerformer._load_midi_file: the stop and the clearing of the log come
\* before mid.tracks[0] is read
LoadMidiFile(s, dlg) ==
    IF ~dlg.file.readable
    THEN [s EXCEPT !.last.dialog = "load_failed"]
    ELSE LET stopped == OnStopClick(s, TRUE)
             cleared == [stopped EXCEPT !.recorded_track = <<>>]
         IN IF dlg.file.tracks = <<>>
            THEN [cleared EXCEPT !.last.dialog = "load_failed"]
            ELSE [cleared EXCEPT !.recorded_track = Decode(dlg.file.tracks[1]),
                                 !.current_file_name = dlg.path,
                                 !.last.dialog = "load_ok"]

\* MidiPerformer._on_load_click
OnLoadClick(s, dlg) ==
    IF dlg.path # "" THEN LoadMidiFile(s, dlg) ELSE s

\* time_ticks = int((timestamp_ms / 1000.0) * (bpm / 60.0) * ticks_per_beat) at
\* bpm = 120: the truncated product, which in double arithmetic falls one
\* short of timestamp_ms * 960 / 1000 at the timestamps of FloatShortfall
\* (all of them up to MaxMs)
FloatShortfall == {1025, 2050, 4100, 4225}

MsToTicks(timestamp_ms) ==
    ((timestamp_ms * 2 * TicksPerBeat) \div 1000)
        - (IF timestamp_ms \in FloatShortfall THEN 1 ELSE 0)

\* mutant of the note-on loop: the cumulative tick is written as the delta-time
RECURSIVE EncodeFrom_Absolute(_, _, _, _)
EncodeFrom_Absolute(log, i, current_time_ticks, track) ==
    IF i > Len(log) THEN track
    ELSE LET time_ticks == MsToTicks(log[i][1])
         IN EncodeFrom_Absolute(log, i + 1, time_ticks,
                                Append(track, NoteOn(time_ticks, log[i][2], NoteOnVelocity)))

\* the note-on loop of _save_midi_file
RECURSIVE EncodeFrom(_, _, _, _)
EncodeFrom(log, i, current_time_ticks, track) ==
    IF i > Len(log) THEN track
    ELSE LET time_ticks == MsToTicks(log[i][1])
             delta_ticks == time_ticks - current_time_ticks
         IN EncodeFrom(log, i + 1, time_ticks,
                       Append(track, NoteOn(delta_ticks, log[i][2], NoteOnVelocity)))

\* iteration over set(note for _, note in recorded_track): CPython keeps up to
\* four small ints in a table of eight slots at slot note mod 8 and iterates
\* the slots in order (the notes of the model never share a slot)
RECURSIVE SetIteration(_)
SetIteration(notes) ==
    IF notes = {} THEN <<>>
    ELSE LET first == CHOOSE n \in notes : \A m \in notes : n % 8 <= m % 8
         IN <<first>> \o SetIteration(notes \ {first})

\* the track _save_midi_file builds and mid.save writes
Encode(log) ==
    LET notes == {log[i][2] : i \in 1..Len(log)}
        order == SetIteration(notes)
        offs == [i \in 1..Len(order) |-> NoteOff(0, order[i])]
    IN EncodeFrom(log, 1, 0, <<SetTempo(0, DefaultTempo)>>) \o offs \o <<EndOfTrack>>

\* mutant of _save_midi_file: the file name is taken before mid.save is tried
SaveMidiFile_RenamesFirst(s, dlg) ==
    IF dlg.write_ok
    THEN [s EXCEPT !.disk = [readable |-> TRUE, ticks_per_beat |-> TicksPerBeat,
                             tracks |-> <<Encode(s.recorded_track)>>],
                   !.saved_log = s.recorded_track,
                   !.current_file_name = dlg.path,
                   !.last.dialog = "save_ok"]
    ELSE [s EXCEPT !.current_file_name = dlg.path, !.last.dialog = "save_failed"]

\* MidiPerformer._save_midi_file: mid.save raises when the path cannot be written
SaveMidiFile(s, dlg) ==
    IF dlg.write_ok
    THEN [s EXCEPT !.disk = [readable |-> TRUE, ticks_per_beat |-> TicksPerBeat,
                             tracks |-> <<Encode(s.recorded_track)>>],
                   !.saved_log = s.recorded_track,
                   !.current_file_name = dlg.path,
                   !.last.dialog = "save_ok"]
    ELSE [s EXCEPT !.last.dialog = "save_failed"]

\* mutant of _on_save_click: the empty log is not refused
OnSaveClick_NoGuard(s, dlg) ==
    IF dlg.path # "" THEN SaveMidiFile(s, dlg) ELSE s

\* MidiPerformer._on_save_click
OnSaveClick(s, dlg) ==
    IF s.recorded_track = <<>>
    THEN [s EXCEPT !.last.dialog = "save_empty"]
    ELSE IF dlg.path # "" THEN SaveMidiFile(s, dlg) ELSE s

\* SynthGenerator.generate_tone called from _play_note: a new Sound object,
\* told from an earlier Sound of the same note and duration by its take
GenerateTone(cache, midi_note, duration_ms) ==
    LET cache_key == <<midi_note, duration_ms>>
    IN [note |-> midi_note,
        duration_ms |-> duration_ms,
        take |-> IF cache_key \in DOMAIN cache THEN cache[cache_key].take + 1 ELSE 1]

\* self.sound_cache[cache_key] = snd
Store(cache, cache_key, snd) ==
    [k \in DOMAIN cache \cup {cache_key} |-> IF k = cache_key THEN snd ELSE cache[k]]

\* mutant of _play_note: the operands of the timestamp are swapped
PlayNote_SwapsOperands(s, midi_note) ==
    LET recorded ==
            IF s.is_recording
            THEN [s EXCEPT !.recorded_track =
                     Append(@, <<s.recording_start_time - s.now, midi_note>>)]
            ELSE s
        duration_ms == s.note_duration_ms
        cache_key == <<midi_note, duration_ms>>
        cache == IF cache_key \notin DOMAIN s.sound_cache
                 THEN Store(s.sound_cache, cache_key,
                            GenerateTone(s.sound_cache, midi_note, duration_ms))
                 ELSE s.sound_cache
        sound == cache[cache_key]
    IN [recorded EXCEPT !.sound_cache = cache,
                        !.mixer_busy = TRUE,
                        !.last.played = @ \cup {sound}]

\* mutant of _play_note: the tone is synthesized and stored at every trigger
PlayNote_Resynthesizes(s, midi_note) ==
    LET recorded ==
            IF s.is_recording
            THEN [s EXCEPT !.recorded_track =
                     Append(@, <<s.now - s.recording_start_time, midi_note>>)]
            ELSE s
        duration_ms == s.note_duration_ms
        cache_key == <<midi_note, duration_ms>>
        cache == Store(s.sound_cache, cache_key,
                       GenerateTone(s.sound_cache, midi_note, duration_ms))
        sound == cache[cache_key]
    IN [recorded EXCEPT !.sound_cache = cache,
                        !.mixer_busy = TRUE,
                        !.last.played = @ \cup {sound}]

\* MidiPerformer._play_note; last.played keeps the Sound objects it played
PlayNote(s, midi_note) ==
    LET recorded ==
            IF s.is_recording
            THEN [s EXCEPT !.recorded_track =
                     Append(@, <<s.now - s.recording_start_time, midi_note>>)]
            ELSE s
        duration_ms == s.note_duration_ms
        cache_key == <<midi_note, duration_ms>>
        cache == IF cache_key \notin DOMAIN s.sound_cache
                 THEN Store(s.sound_cache, cache_key,
                            GenerateTone(s.sound_cache, midi_note, duration_ms))
                 ELSE s.sound_cache
        sound == cache[cache_key]
    IN [recorded EXCEPT !.sound_cache = cache,
                        !.mixer_busy = TRUE,
                        !.last.played = @ \cup {sound}]

\* MidiPerformer._trigger_playback_press; set_timer replaces the pending timer
\* of the same event type
TriggerPlaybackPress(s, midi_note) ==
    IF NoteHasButton(midi_note)
    THEN [s EXCEPT !.playback_pressed[KeyButton(midi_note)] = TRUE,
                   !.timer = [note |-> midi_note, due |-> s.now + VisualPressMs]]
    ELSE s

\* Button.handle_click, with on_click bound as in _create_buttons
HandleClick(s, b, dlg) ==
    LET toggled == IF IsToggle(b) THEN [s EXCEPT !.is_active[b] = ~@] ELSE s
        active == toggled.is_active[b]
        t == [toggled EXCEPT !.last.clicked = @ \cup {b}]
    IN CASE b = "record" -> OnRecordClick(t, active)
         [] b = "play" -> OnPlayClick(t, active)
         [] b = "stop" -> OnStopClick(t, active)
         [] b = "save" -> OnSaveClick(t, dlg)
         [] b = "load" -> OnLoadClick(t, dlg)
         [] b = "sustain" -> OnSustainClick(t, active)
         [] OTHER -> PlayNote(t, MidiNote(b))

----------------------------------------------------------------------------
(* update() *)

\* mutant of the playback branch: the tail must be exceeded, not reached
Scheduler_StrictTail(s) ==
    IF ~s.is_playing_back THEN s
    ELSE IF s.playback_note_index >= Len(s.recorded_track)
    THEN LET last_ts == IF s.recorded_track # <<>>
                        THEN s.recorded_track[Len(s.recorded_track)][1]
                        ELSE 0
             playback_elapsed == s.now - s.playback_start_time
         IN IF playback_elapsed > last_ts + s.note_duration_ms
            THEN [s EXCEPT !.is_playing_back = FALSE,
                           !.is_active["play"] = FALSE,
                           !.last.sched = "ended"]
            ELSE [s EXCEPT !.last.sched = "wait"]
    ELSE LET playback_time == s.now - s.playback_start_time
             ev == s.recorded_track[s.playback_note_index + 1]
         IN IF playback_time >= ev[1]
            THEN [TriggerPlaybackPress(PlayNote(s, ev[2]), ev[2])
                     EXCEPT !.playback_note_index = @ + 1,
                            !.last.sched = "fired"]
            ELSE [s EXCEPT !.last.sched = "wait"]

\* mutant of the playback branch: an event is played without waiting for its
\* timestamp
Scheduler_FiresEarly(s) ==
    IF ~s.is_playing_back THEN s
    ELSE IF s.playback_note_index >= Len(s.recorded_track)
    THEN LET last_ts == IF s.recorded_track # <<>>
                        THEN s.recorded_track[Len(s.recorded_track)][1]
                        ELSE 0
             playback_elapsed == s.now - s.playback_start_time
         IN IF playback_elapsed >= last_ts + s.note_duration_ms
            THEN [s EXCEPT !.is_playing_back = FALSE,
                           !.is_active["play"] = FALSE,
                           !.last.sched = "ended"]
            ELSE [s EXCEPT !.last.sched = "wait"]
    ELSE LET ev == s.recorded_track[s.playback_note_index + 1]
         IN [TriggerPlaybackPress(PlayNote(s, ev[2]), ev[2])
                EXCEPT !.playback_note_index = @ + 1,
                       !.last.sched = "fired"]

\* mutant of the playback branch: the end of the log is never acted upon
Scheduler_NeverEnds(s) ==
    IF ~s.is_playing_back THEN s
    ELSE IF s.playback_note_index >= Len(s.recorded_track)
    THEN [s EXCEPT !.last.sched = "wait"]
    ELSE LET playback_time == s.now - s.playback_start_time
             ev == s.recorded_track[s.playback_note_index + 1]
         IN IF playback_time >= ev[1]
            THEN [TriggerPlaybackPress(PlayNote(s, ev[2]), ev[2])
                     EXCEPT !.playback_note_index = @ + 1,
                            !.last.sched = "fired"]
            ELSE [s EXCEPT !.last.sched = "wait"]

\* the playback branch of MidiPerformer.update
Scheduler(s) ==
    IF ~s.is_playing_back THEN s
    ELSE IF s.playback_note_index >= Len(s.recorded_track)
    THEN LET last_ts == IF s.recorded_track # <<>>
                        THEN s.recorded_track[Len(s.recorded_track)][1]
                        ELSE 0
             playback_elapsed == s.now - s.playback_start_time
         IN IF playback_elapsed >= last_ts + s.note_duration_ms
            THEN [s EXCEPT !.is_playing_back = FALSE,
                           !.is_active["play"] = FALSE,
                           !.last.sched = "ended"]
            ELSE [s EXCEPT !.last.sched = "wait"]
    ELSE LET playback_time == s.now - s.playback_start_time
             ev == s.recorded_track[s.playback_note_index + 1]
         IN IF playback_time >= ev[1]
            THEN [TriggerPlaybackPress(PlayNote(s, ev[2]), ev[2])
                     EXCEPT !.playback_note_index = @ + 1,
                            !.last.sched = "fired"]
            ELSE [s EXCEPT !.last.sched = "wait"]

\* Button.update: the new Button.state
NewState(s, b, mouse_pos, mouse_pressed) ==
    LET is_hovered == b \in mouse_pos
        is_mouse_pressed == is_hovered /\ mouse_pressed
    IN IF s.playback_pressed[b] \/ s.key_pressed[b] \/ is_mouse_pressed THEN "pressed"
       ELSE IF s.is_active[b] THEN "active"
       ELSE IF is_hovered THEN "hovered"
       ELSE "normal"

\* Button.is_released, prev_state being the state before Button.update
IsReleased(prev_state, b, mouse_pos, mouse_pressed) ==
    LET is_hovered == b \in mouse_pos
        was_pressed == prev_state = "pressed"
        is_no_longer_pressed == ~mouse_pressed
    IN was_pressed /\ is_no_longer_pressed /\ is_hovered

\* history: the conditions of Button.update that make the button pressed
PressCauses(s, b, mouse_pos, mouse_pressed) ==
    (IF s.playback_pressed[b] THEN {"playback"} ELSE {})
    \cup (IF s.key_pressed[b] THEN {"key"} ELSE {})
    \cup (IF b \in mouse_pos /\ mouse_pressed THEN {"mouse"} ELSE {})

\* one iteration of "for button in self.buttons" of MidiPerformer.update
ButtonStep(s, b, mouse_pos, mouse_pressed, dlg) ==
    LET prev_state == s.state[b]
        updated == [s EXCEPT !.state[b] = NewState(s, b, mouse_pos, mouse_pressed),
                             !.pressed_by[b] = PressCauses(s, b, mouse_pos, mouse_pressed)]
    IN IF /\ IsReleased(prev_state, b, mouse_pos, mouse_pressed)
          /\ ~updated.key_pressed[b]
          /\ ~updated.playback_pressed[b]
       THEN HandleClick(updated, b, dlg)
       ELSE updated

RECURSIVE UpdateButtons(_, _, _, _, _)
UpdateButtons(s, i, mouse_pos, mouse_pressed, dlg) ==
    IF i > Len(ButtonOrder) THEN s
    ELSE UpdateButtons(ButtonStep(s, ButtonOrder[i], mouse_pos, mouse_pressed, dlg),
                       i + 1, mouse_pos, mouse_pressed, dlg)

\* MidiPerformer.update
UpdateOp(s, mouse_pos, mouse_pressed, dlg) ==
    UpdateButtons(Scheduler(s), 1, mouse_pos, mouse_pressed, dlg)

----------------------------------------------------------------------------
(* handle_events() *)

\* KEYDOWN of the keyboard key mapped to note n
KeyDownOp(s, n) ==
    LET b == KeyButton(n) IN
    IF ~s.key_pressed[b]
    THEN HandleClick([s EXCEPT !.key_pressed[b] = TRUE], b, NoDialog)
    ELSE s

\* KEYUP of the keyboard key mapped to note n
KeyUpOp(s, n) == [s EXCEPT !.key_pressed[KeyButton(n)] = FALSE]

\* PLAYBACK_NOTE_OFF_EVENT
PlaybackNoteOffOp(s) ==
    IF NoteHasButton(s.timer.note)
    THEN [s EXCEPT !.playback_pressed[KeyButton(s.timer.note)] = FALSE, !.timer = NoTimer]
    ELSE [s EXCEPT !.timer = NoTimer]

----------------------------------------------------------------------------
(* The state machine *)

Init ==
    /\ now = 0
    /\ is_recording = FALSE
    /\ is_playing_back = FALSE
    /\ recorded_track = <<>>
    /\ recording_start_time = 0
    /\ playback_start_time = 0
    /\ playback_note_index = 0
    /\ current_file_name = DefaultFileName
    /\ note_duration_ms = DefaultDurationMs
    /\ sound_cache = EmptyCache
    /\ is_active = [b \in Buttons |-> FALSE]
    /\ state = [b \in Buttons |-> "normal"]
    /\ key_pressed = [b \in Buttons |-> FALSE]
    /\ playback_pressed = [b \in Buttons |-> FALSE]
    /\ timer = NoTimer
    /\ mixer_busy = FALSE
    /\ disk = Unreadable
    /\ master_volume = DefaultVolume
    /\ tone = NoTone
    /\ saved_log = <<>>
    /\ pressed_by = [b \in Buttons |-> {}]
    /\ last = NoAction

TimerDue == timer # NoTimer /\ now >= timer.due

\* the recording stays within the model's bound
InBounds(s) == s.is_recording => Len(s.recorded_track) <= MaxLen

\* the clock advances by one of steps while below cap; a timer event that is
\* due is handled first
AdvanceBy(steps, cap) ==
    \E d \in steps :
        /\ now < cap
        /\ ~TimerDue
        /\ Commit([Begin EXCEPT !.now = now + d])

Advance == AdvanceBy(ClockSteps, MaxTime)

\* KEYDOWN events of the keys of notes
KeyDownOf(notes) ==
    \E n \in notes :
        LET s == KeyDownOp(Begin, n) IN
        /\ InBounds(s)
        /\ Commit(s)

\* KEYUP events of the keys of notes
KeyUpOf(notes) ==
    \E n \in notes :
        /\ key_pressed[KeyButton(n)]
        /\ Commit(KeyUpOp(Begin, n))

KeyDown == KeyDownOf(PlayedNotes)

KeyUp == KeyUpOf(PlayedNotes)

PlaybackNoteOff ==
    /\ TimerDue
    /\ Commit(PlaybackNoteOffOp(Begin))

\* one frame's update() with the mouse somewhere in positions
UpdateAt(positions, files) ==
    \E mouse_pos \in positions, mouse_pressed \in BOOLEAN :
        \E dlg \in Dialogs(mouse_pos, files) :
            LET s == UpdateOp(Begin, mouse_pos, mouse_pressed, dlg) IN
            /\ InBounds(s)
            /\ Commit(s)

Update == UpdateAt(MousePositions, Files)

\* one step of the frame loop; no Sound ends within MaxTime, which is shorter
\* than any note
Next ==
    \/ Advance
    \/ KeyDown
    \/ KeyUp
    \/ PlaybackNoteOff
    \/ Update

Spec == Init /\ [][Next]_vars

----------------------------------------------------------------------------
(* The same machine with the file dialogs and no piano key *)

FileUpdate == UpdateAt(FilePositions, Files)

FileNext ==
    \/ Advance
    \/ PlaybackNoteOff
    \/ FileUpdate

SpecFiles == Init /\ [][FileNext]_vars

----------------------------------------------------------------------------
(* The same machine with every button of the two above; the piano is played
   with the mouse: the keyboard reaches the two mode flags through no other
   code than _play_note, which a click on a key runs as well *)

\* the files chosen when every control is in use: one whose load fails after
\* the log was cleared and one that loads
AllFiles == {NoTrackFile, OneNoteFile}

\* the folder chosen in the Save dialog is not writable: every save here is
\* cancelled or fails
AllUpdate ==
    /\ UpdateAt(MousePositions \cup FilePositions, AllFiles)
    /\ disk' = disk

AllNext ==
    \/ Advance
    \/ PlaybackNoteOff
    \/ AllUpdate

SpecAll == Init /\ [][AllNext]_vars

----------------------------------------------------------------------------
(* Playback of a loaded song to its natural end *)

\* the state after one of files was loaded at start-up and the mouse has left
\* the Load button
InitLoaded(files) ==
    /\ now = 0
    /\ is_recording = FALSE
    /\ is_playing_back = FALSE
    /\ \E f \in files :
          /\ recorded_track = Decode(f.tracks[1])
          /\ current_file_name = PathOf(f)
    /\ recording_start_time = 0
    /\ playback_start_time = 0
    /\ playback_note_index = 0
    /\ note_duration_ms = DefaultDurationMs
    /\ sound_cache = EmptyCache
    /\ is_active = [b \in Buttons |-> FALSE]
    /\ state = [b \in Buttons |-> "normal"]
    /\ key_pressed = [b \in Buttons |-> FALSE]
    /\ playback_pressed = [b \in Buttons |-> FALSE]
    /\ timer = NoTimer
    /\ mixer_busy = FALSE
    /\ disk = Unreadable
    /\ master_volume = DefaultVolume
    /\ tone = NoTone
    /\ saved_log = <<>>
    /\ pressed_by = [b \in Buttons |-> {}]
    /\ last = NoAction

InitPlay == InitLoaded(PlayFiles)

PlayAdvance == AdvanceBy(PlayClockSteps, MaxPlayTime)

PlayUpdate == UpdateAt(PlayPositions, PlayFiles)

PlayNext ==
    \/ PlayAdvance
    \/ PlaybackNoteOff
    \/ PlayUpdate

SpecPlay == InitPlay /\ [][PlayNext]_vars

----------------------------------------------------------------------------
(* Saving and loading: the encoder and the decoder on a set of logs and files *)

\* the logs saved: recordings of the keys Z (60), C (64) and B (67)
CodecLogs == {<<>>,
              << <<1, 60>>, <<1025, 64>> >>,
              << <<0, 60>>, <<333, 60>> >>,
              << <<0, 60>>, <<500, 64>>, <<1000, 67>> >>,
              << <<24, 60>>, <<48, 64>>, <<72, 67>> >>}

\* the state some time after one of CodecLogs was recorded and the recording
\* stopped, the mouse off the buttons
InitCodec ==
    /\ now = CodecTime
    /\ is_recording = FALSE
    /\ is_playing_back = FALSE
    /\ recorded_track \in CodecLogs
    /\ recording_start_time = 0
    /\ playback_start_time = 0
    /\ playback_note_index = 0
    /\ current_file_name = DefaultFileName
    /\ note_duration_ms = DefaultDurationMs
    /\ sound_cache = [k \in {<<recorded_track[i][2], DefaultDurationMs>> :
                                i \in 1..Len(recorded_track)}
                         |-> GenerateTone(EmptyCache, k[1], k[2])]
    /\ is_active = [b \in Buttons |-> FALSE]
    /\ state = [b \in Buttons |-> "normal"]
    /\ key_pressed = [b \in Buttons |-> FALSE]
    /\ playback_pressed = [b \in Buttons |-> FALSE]
    /\ timer = NoTimer
    /\ mixer_busy = FALSE
    /\ disk = Unreadable
    /\ master_volume = DefaultVolume
    /\ tone = NoTone
    /\ saved_log = <<>>
    /\ pressed_by = [b \in Buttons |-> {}]
    /\ last = NoAction

\* the mouse on Save, on Load or elsewhere
CodecPositions == {{}, {"save"}, {"load"}}

\* the file save wrote, once there is one
DiskFiles == IF disk.readable THEN {disk} ELSE {}

CodecUpdate == UpdateAt(CodecPositions, CodecFiles \cup DiskFiles)

\* _save_midi_file called with a path, without the Save click before it
SaveMidiFileCall ==
    \E dlg \in SaveDialogs \ {NoDialog} :
        Commit(SaveMidiFile(Begin, dlg))

CodecNext ==
    \/ CodecUpdate
    \/ SaveMidiFileCall

SpecCodec == InitCodec /\ [][CodecNext]_vars

----------------------------------------------------------------------------
(* Everything that could touch the log: recording, playback, loading, the
   sustain switch and the volume slider *)

\* where the slider is pressed, as the volume in percent it sets
SliderVolumes == {50, 80}

\* MOUSEBUTTONDOWN on the volume slider
VolumeDown ==
    \E v \in SliderVolumes :
        /\ master_volume # v
        /\ Commit([Begin EXCEPT !.master_volume = v])

LogPositions == {{}, {"record"}, {"play"}, {"stop"}, {"load"}, {"sustain"}, {"key60"}}

LogFiles == {OneNoteFile}

LogUpdate == UpdateAt(LogPositions, LogFiles)

LogNext ==
    \/ Advance
    \/ PlaybackNoteOff
    \/ VolumeDown
    \/ LogUpdate

SpecLog == Init /\ [][LogNext]_vars

----------------------------------------------------------------------------
(* SynthGenerator.generate_tone as a function of its arguments: the number of
   samples it synthesizes and the slices of the envelope it writes.  The
   amplitudes are not modelled *)

\* attack_time, decay_time and release_time of the envelope, in ms
AttackTimeMs == 20

DecayTimeMs == 50

ReleaseTimeMs == 500

\* int(a / b) for b > 0: Python's int() truncates towards zero
TruncDiv(a, b) == IF a >= 0 THEN a \div b ELSE -((-a) \div b)

\* a bound i of a Python slice of n elements: negative bounds count from the
\* end and every bound is clamped into 0..n
SliceIndex(i, n) ==
    IF i < 0 THEN (IF i + n < 0 THEN 0 ELSE i + n)
    ELSE IF i > n THEN n ELSE i

\* the elements envelope[start:stop] selects out of n, as [from, to)
Slice(start, stop, n) ==
    LET from == SliceIndex(start, n)
        to == SliceIndex(stop, n)
    IN  [from |-> from, to |-> IF to < from THEN from ELSE to]

SliceLen(sl) == sl.to - sl.from

\* numpy assigns an array of k values to a slice only when the slice has k
\* elements, or when k = 1
Broadcasts(k, sl) == k = SliceLen(sl) \/ k = 1

\* an exception raised by the statement at
Raised(at) == [error |-> "ValueError", at |-> at, frames |-> 0, writes |-> <<>>]

\* the part of the envelope written over the slice sl
Write(part, sl) == [part |-> part, from |-> sl.from, to |-> sl.to]

\* SynthGenerator.generate_tone
generate_tone(frequency, duration_ms, sample_rate) ==
    LET num_samples == TruncDiv(sample_rate * duration_ms, 1000)
        attack_samples == TruncDiv(sample_rate * AttackTimeMs, 1000)
        decay_samples == TruncDiv(sample_rate * DecayTimeMs, 1000)
        release_samples == TruncDiv(sample_rate * ReleaseTimeMs, 1000)
        sustain_samples ==
            num_samples - attack_samples - decay_samples - release_samples
        sustain_start == attack_samples + decay_samples
        sustain_end == sustain_start + sustain_samples
        attack == Slice(0, attack_samples, num_samples)
        decay == Slice(attack_samples, attack_samples + decay_samples, num_samples)
        sustain == Slice(sustain_start, sustain_end, num_samples)
        release == Slice(-release_samples, num_samples, num_samples)
        attack_w == IF attack_samples > 0 THEN <<Write("attack", attack)>> ELSE <<>>
        decay_w == IF decay_samples > 0 THEN <<Write("decay", decay)>> ELSE <<>>
        sustain_w ==
            IF sustain_end > sustain_start THEN <<Write("sustain", sustain)>> ELSE <<>>
        release_w == IF release_samples > 0 THEN <<Write("release", release)>> ELSE <<>>
    IN  IF num_samples < 0 THEN Raised("linspace")
        ELSE IF attack_samples > 0 /\ ~Broadcasts(attack_samples, attack)
        THEN Raised("attack")
        ELSE IF decay_samples > 0 /\ ~Broadcasts(decay_samples, decay)
        THEN Raised("decay")
        ELSE IF release_samples > 0 /\ ~Broadcasts(release_samples, release)
        THEN Raised("release")
        ELSE [error |-> "none", at |-> "return", frames |-> num_samples,
              writes |-> attack_w \o decay_w \o sustain_w \o release_w]

\* the arguments generate_tone is called with: frequencies in Hz (440 is A4, 262
\* stands for C4), durations in ms, sample rates in Hz
ToneFrequencies == {-440, 0, 262, 440}

ToneDurations == {-1000, -1, 0, 1, 10, 19, 20, 69, 70, 499, 500, 506, 569, 570,
                  1000, 2000}

ToneSampleRates == {-44100, 0, 8000, 22050, 44100}

ToneCalls == [called : {FALSE}, frequency : ToneFrequencies,
              duration_ms : ToneDurations, sample_rate : ToneSampleRates]

\* a caller is about to call generate_tone; the application is idle
InitSynth ==
    /\ tone \in ToneCalls
    /\ now = 0
    /\ is_recording = FALSE
    /\ is_playing_back = FALSE
    /\ recorded_track = <<>>
    /\ recording_start_time = 0
    /\ playback_start_time = 0
    /\ playback_note_index = 0
    /\ current_file_name = DefaultFileName
    /\ note_duration_ms = DefaultDurationMs
    /\ sound_cache = EmptyCache
    /\ is_active = [b \in Buttons |-> FALSE]
    /\ state = [b \in Buttons |-> "normal"]
    /\ key_pressed = [b \in Buttons |-> FALSE]
    /\ playback_pressed = [b \in Buttons |-> FALSE]
    /\ timer = NoTimer
    /\ mixer_busy = FALSE
    /\ disk = Unreadable
    /\ master_volume = DefaultVolume
    /\ saved_log = <<>>
    /\ pressed_by = [b \in Buttons |-> {}]
    /\ last = NoAction

\* the call returns or raises
GenerateToneCall ==
    /\ ~tone.called
    /\ Commit([Begin EXCEPT !.tone =
                  [called |-> TRUE,
                   frequency |-> tone.frequency,
                   duration_ms |-> tone.duration_ms,
                   sample_rate |-> tone.sample_rate,
                   result |-> generate_tone(tone.frequency, tone.duration_ms,
                                            tone.sample_rate)]])

\* the caller goes on to another call
NextToneCall ==
    /\ tone.called
    /\ \E t \in ToneCalls : Commit([Begin EXCEPT !.tone = t])

SynthNext ==
    \/ GenerateToneCall
    \/ NextToneCall

SpecSynth == InitSynth /\ [][SynthNext]_vars

----------------------------------------------------------------------------
(* Playback left alone: the user starts it, with or without sustain, and does
   nothing from then on, while the frame loop of run() goes on.  Every frame handles
   the pending events, runs update() and only then lets the clock tick; a
   frame takes 16 ms and a step of the model's clock spans many frames *)

UnattendedFiles == {OneNoteFile, SongFile, ChordFile}

InitUnattended == InitLoaded(UnattendedFiles)

\* where the mouse is: at the Play and Sustain buttons until playback starts,
\* away from every button after that
UnattendedPositions ==
    IF now = 0 /\ ~is_playing_back THEN PlayPositions ELSE {{}}

UnattendedUpdate == UpdateAt(UnattendedPositions, {})

\* update() has no event to play and no playback to end at the current time
NothingDue ==
    UpdateOp(Begin, {}, FALSE, NoDialog).last.sched \notin {"fired", "ended"}

\* the clock reaches its next step after the frames of the current one
UnattendedAdvance ==
    /\ NothingDue
    /\ PlayAdvance

UnattendedNext ==
    \/ UnattendedAdvance
    \/ PlaybackNoteOff
    \/ UnattendedUpdate

\* UnattendedAdvance can be taken
AdvanceEnabled == now < MaxPlayTime /\ ~TimerDue /\ NothingDue

\* some update() of UnattendedUpdate changes the state
UpdateEnabled ==
    \E mouse_pos \in UnattendedPositions, mouse_pressed \in BOOLEAN :
        UpdateOp(Begin, mouse_pos, mouse_pressed, NoDialog) # Self

\* weak fairness of the three steps of the loop; for the update and the clock
\* it is written out, with the enabling condition as a state predicate
SpecUnattended ==
    /\ InitUnattended
    /\ [][UnattendedNext]_vars
    /\ WF_vars(PlaybackNoteOff)
    /\ ([]<>~UpdateEnabled \/ []<><<UnattendedUpdate>>_vars)
    /\ ([]<>~AdvanceEnabled \/ []<><<UnattendedAdvance>>_vars)

----------------------------------------------------------------------------
(* The mode buttons over a loaded song, for as long as a playback lasts *)

ModePositions == {{}, {"record"}, {"play"}, {"stop"}, {"load"}}

ModeFiles == {OneNoteFile}

ModeUpdate == UpdateAt(ModePositions, ModeFiles)

ModeNext ==
    \/ PlayAdvance
    \/ PlaybackNoteOff
    \/ ModeUpdate

SpecModes == InitPlay /\ [][ModeNext]_vars

----------------------------------------------------------------------------
(* Claims *)

\* C1: is_recording and is_playing_back are never both true, whatever the
\* sequence of Record, Play, Stop, Save and Load clicks, key presses and ticks.
C1_MutualExclusion == ~(is_recording /\ is_playing_back)

\* playback was started by a Play click in a frame that began with the
\* Record button still drawn active: a switch from recording to playback
C1_Witness ==
    /\ is_playing_back
    /\ "play" \in last.clicked
    /\ state["record"] = "active"

\* C2: a Record click that starts a recording while playback is active leaves
\* playback idle and the Play indicator off, and a Play click that starts
\* playback while recording leaves the recorder idle and the Record indicator
\* off.
C2_StartForcesOtherIdle ==
    [][/\ (is_playing_back /\ "record" \in last'.clicked /\ is_recording')
            => (~is_playing_back' /\ ~is_active'["play"])
       /\ (is_recording /\ "play" \in last'.clicked /\ is_playing_back')
            => (~is_recording' /\ ~is_active'["record"])]_vars

\* a recording was started in a frame whose playback branch had just fired a note
C2_Witness ==
    /\ is_recording
    /\ "record" \in last.clicked
    /\ last.sched = "fired"
    /\ ~is_playing_back
    /\ ~is_active["play"]

\* C3: while recording, the log grows only by one event (now - t0, note) per
\* note trigger of a piano key, a trigger is a key press or a mouse click and
\* never the clearing of a playback visual press, and a note fired by playback
\* is not recorded.
C3_RecordsOnlyUserTriggers ==
    [][LET keys == last'.clicked \cap KeyButtons IN
       /\ (is_recording /\ is_recording')
            => IF keys = {}
               THEN recorded_track' = recorded_track
               ELSE \E b \in keys :
                      recorded_track' =
                        Append(recorded_track, <<now - recording_start_time, MidiNote(b)>>)
       /\ is_recording'
            => \A b \in keys :
                  \/ key_pressed'[b] /\ ~key_pressed[b]
                  \/ pressed_by[b] # {"playback"}
       /\ (last'.sched = "fired" /\ keys = {})
            => recorded_track' \in {recorded_track, <<>>}]_vars

\* C4: after a tick of playback the cursor is at the end of the log or at an
\* event whose timestamp is beyond the elapsed time: every due event has fired.
C4_TickFiresAllDue ==
    [][(last'.sched # "idle" /\ last'.clicked = {})
         => \/ playback_note_index' = Len(recorded_track')
            \/ recorded_track'[playback_note_index' + 1][1] > now - playback_start_time]_vars

\* C5: with the cursor at the end of the log a tick keeps playback going while
\* elapsed < last timestamp + note_duration_ms and ends it, clearing the Play
\* indicator, as soon as elapsed >= that sum.
C5_WaitsForTail ==
    [][(/\ last'.sched # "idle"
        /\ playback_note_index >= Len(recorded_track)
        /\ last'.clicked \cap {"record", "play", "stop", "load"} = {})
         => LET last_ts == IF recorded_track = <<>> THEN 0
                           ELSE recorded_track[Len(recorded_track)][1]
                elapsed == now - playback_start_time
            IN IF elapsed < last_ts + note_duration_ms
               THEN is_playing_back' /\ is_active'["play"] = is_active["play"]
               ELSE ~is_playing_back' /\ ~is_active'["play"]]_vars

\* the log [(0, 60)] at the default duration: playback ended by a tick 1000 ms
\* after its start
C5_Witness ==
    /\ recorded_track = << <<0, 60>> >>
    /\ note_duration_ms = DefaultDurationMs
    /\ last.sched = "ended"
    /\ now - playback_start_time = DefaultDurationMs
    /\ ~is_playing_back

\* C6: a Stop click or a Play click during playback leaves no audio playing,
\* is_playing_back false and the cursor at 0.
C6_ForcedStopHaltsAndResets ==
    [][(/\ last'.sched \in {"fired", "wait"}
        /\ ("stop" \in last'.clicked \/ "play" \in last'.clicked))
         => /\ ~mixer_busy'
            /\ ~is_playing_back'
            /\ playback_note_index' = 0]_vars

\* C7: a Play click on an empty log leaves playback off, the Play indicator
\* off, and the log, the cursor, is_recording and the Record indicator as
\* they were.
C7_PlayOnEmptyLogIsNoOp ==
    [][("play" \in last'.clicked /\ recorded_track = <<>>)
         => /\ ~is_playing_back
            /\ ~is_playing_back'
            /\ ~is_active'["play"]
            /\ recorded_track' = recorded_track
            /\ playback_note_index' = playback_note_index
            /\ is_recording' = is_recording
            /\ is_active'["record"] = is_active["record"]]_vars

\* Play was clicked on an empty log while a recording was running
C7_Witness ==
    /\ "play" \in last.clicked
    /\ recorded_track = <<>>
    /\ is_recording
    /\ is_active["record"]

\* C8: a Record click that starts a recording empties the log and sets t0 to
\* the clock; one that stops a recording keeps the log; in between the log
\* changes only by a note trigger.
C8_RecordingTransitions ==
    [][/\ ("record" \in last'.clicked /\ is_recording')
            => (recorded_track' = <<>> /\ recording_start_time' = now)
       /\ ("record" \in last'.clicked /\ ~is_recording')
            => (is_recording /\ recorded_track' = recorded_track)
       /\ (is_recording /\ is_recording' /\ last'.clicked \cap KeyButtons = {})
            => recorded_track' = recorded_track]_vars

\* a recording was stopped with an empty log after a playback had fired notes
\* of an earlier log
C8_Witness ==
    /\ ~is_recording
    /\ "record" \in last.clicked
    /\ recorded_track = <<>>
    /\ playback_note_index > 0

\* C9: a load that fails leaves the log, is_recording, is_playing_back and
\* current_file_name as they were when Load was clicked.
C9_FailedLoadKeepsState ==
    [][last'.dialog = "load_failed"
         => LET s == Scheduler(Self) IN
            /\ recorded_track' = recorded_track
            /\ is_recording' = is_recording
            /\ is_playing_back' = s.is_playing_back
            /\ current_file_name' = current_file_name]_vars

\* the notes of the note-on messages with velocity > 0 of a track, in order
NoteOnNotes(msgs) ==
    LET ons == SelectSeq(msgs, LAMBDA m : m.type = "note_on" /\ m.velocity > 0)
    IN [i \in 1..Len(ons) |-> ons[i].note]

\* C10: after a successful load the log is what the file just chosen (the
\* one current_file_name now names) decodes to,
\* one event per note-on in file order and nothing else, and the system is
\* idle with both indicators off.
C10_LoadReplacesLog ==
    [][last'.dialog = "load_ok"
         => /\ \E f \in Files :
                 /\ PathOf(f) = current_file_name'
                 /\ f.readable
                 /\ f.tracks # <<>>
                 /\ recorded_track' = Decode(f.tracks[1])
                 /\ [i \in 1..Len(recorded_track') |-> recorded_track'[i][2]]
                      = NoteOnNotes(f.tracks[1])
            /\ ~is_recording'
            /\ ~is_playing_back'
            /\ ~is_active'["record"]
            /\ ~is_active'["play"]]_vars

\* the song was loaded by a click in a frame that began with the Record
\* button still drawn active: a load during a recording
C10_Witness ==
    /\ last.dialog = "load_ok"
    /\ Len(recorded_track) = 2
    /\ state["record"] = "active"
    /\ ~is_active["record"]

\* the positions in a track of the note-on messages with velocity > 0
NoteOnPositions(msgs) ==
    SelectSeq([k \in 1..Len(msgs) |-> k],
              LAMBDA k : msgs[k].type = "note_on" /\ msgs[k].velocity > 0)

\* the tempo in effect for the delta-time of message k: that of the last
\* set_tempo before it, 500000 when there is none
RECURSIVE TempoAt(_, _)
TempoAt(msgs, k) ==
    IF k <= 1 THEN DefaultTempo
    ELSE IF msgs[k - 1].type = "set_tempo" THEN msgs[k - 1].tempo
    ELSE TempoAt(msgs, k - 1)

\* the time of message k of file f: the delta-times of messages 1..k, each
\* converted with the tempo in effect and the ticks-per-beat of the header
RECURSIVE CumulativeMs(_, _)
CumulativeMs(f, k) ==
    IF k = 0 THEN 0
    ELSE CumulativeMs(f, k - 1)
         + (f.tracks[1][k].time * TempoAt(f.tracks[1], k)) \div (f.ticks_per_beat * 1000)

\* the file a load that just succeeded has read: current_file_name names it
LoadedFiles == {f \in CodecFiles \cup DiskFiles : PathOf(f) = current_file_name'}

\* C11: after a successful load the log holds, for each note-on with velocity
\* > 0 of track 0 and for nothing else, the note and the cumulative time of
\* that message, to which every message before it has added its delta-time,
\* converted with the file's ticks-per-beat.
C11_DecodeCumulative ==
    [][last'.dialog = "load_ok"
         => \E f \in LoadedFiles :
              LET msgs == f.tracks[1]
                  pos == NoteOnPositions(msgs)
              IN /\ Len(recorded_track') = Len(pos)
                 /\ \A i \in 1..Len(pos) :
                       recorded_track'[i] = <<CumulativeMs(f, pos[i]), msgs[pos[i]].note>>]_vars

\* C12: after a successful load each timestamp exceeds the one before it by
\* the delta-time of its note-on converted with the tempo in effect at that
\* message: the default before the first tempo event, the new tempo only
\* after it; the timestamps appended before a tempo event stay as they were.
C12_TempoNotRetroactive ==
    [][last'.dialog = "load_ok"
         => \E f \in LoadedFiles :
              LET msgs == f.tracks[1]
                  pos == NoteOnPositions(msgs)
              IN /\ Len(recorded_track') = Len(pos)
                 /\ \A i \in 1..Len(pos) :
                       recorded_track'[i][1] =
                         (IF i = 1 THEN 0 ELSE recorded_track'[i - 1][1])
                         + (msgs[pos[i]].time * TempoAt(msgs, pos[i]))
                               \div (TicksPerBeat * 1000)]_vars

\* the file with the tempo change was loaded: 500 ms for the 480 ticks before
\* the change and 250 ms for the 480 ticks after it
C12_Witness ==
    /\ last.dialog = "load_ok"
    /\ current_file_name = "tempo.mid"
    /\ recorded_track = << <<0, 60>>, <<500, 64>>, <<750, 67>> >>

\* the sum of the delta-times of messages 1..k of a track
RECURSIVE TicksUpTo(_, _)
TicksUpTo(msgs, k) == IF k = 0 THEN 0 ELSE TicksUpTo(msgs, k - 1) + msgs[k].time

\* round(timestamp_ms/1000 * 120/60 * 480): 0.96 * timestamp_ms to the nearest
\* integer
RoundedTicks(timestamp_ms) == (timestamp_ms * 960 + 500) \div 1000

\* C13: the track a save writes starts with one tempo event, followed for each
\* log event in order by one note-on of that note with velocity 100, delta-time
\* >= 0, at the cumulative tick round(0.96 * timestamp_ms), rounded to nearest.
C13_EncodeRoundsToNearest ==
    [][last'.dialog = "save_ok"
         => LET msgs == disk'.tracks[1]
                log == recorded_track
            IN /\ Len(msgs) > Len(log)
               /\ msgs[1].type = "set_tempo"
               /\ \A i \in 1..Len(log) :
                     /\ msgs[i + 1].type = "note_on"
                     /\ msgs[i + 1].note = log[i][2]
                     /\ msgs[i + 1].velocity = 100
                     /\ msgs[i + 1].time >= 0
                     /\ TicksUpTo(msgs, i + 1) = RoundedTicks(log[i][1])]_vars

\* the distinct notes of log[1..k] in the order in which they first occur
RECURSIVE FirstOccurrences(_, _)
FirstOccurrences(log, k) ==
    IF k = 0 THEN <<>>
    ELSE LET before == FirstOccurrences(log, k - 1)
         IN IF \E j \in 1..Len(before) : before[j] = log[k][2]
            THEN before
            ELSE Append(before, log[k][2])

\* C14: in the track a save writes, the note-offs come after all the note-ons,
\* each with velocity 0 and delta-time 0, one for each distinct note of the log
\* and no other, in the order in which the notes first occur in the log.
C14_NoteOffsInFirstOccurrenceOrder ==
    [][last'.dialog = "save_ok"
         => LET msgs == disk'.tracks[1]
                log == recorded_track
                pos == SelectSeq([k \in 1..Len(msgs) |-> k],
                                 LAMBDA k : msgs[k].type = "note_off")
            IN /\ \A i \in 1..Len(pos) :
                     /\ pos[i] > Len(log) + 1
                     /\ msgs[pos[i]].velocity = 0
                     /\ msgs[pos[i]].time = 0
               /\ [i \in 1..Len(pos) |-> msgs[pos[i]].note]
                    = FirstOccurrences(log, Len(log))]_vars

\* the log of the round trip
RoundTripLog == << <<0, 60>>, <<500, 64>>, <<1000, 67>> >>

\* C15: loading the file that a save of [(0,60),(500,64),(1000,67)] wrote gives
\* a log of three events with the notes 60, 64, 67 in that order and each
\* timestamp within 2 ms of 0, 500 and 1000.
C15_RoundTrip ==
    [][(/\ last'.dialog = "load_ok"
        /\ current_file_name' = "a.mid"
        /\ saved_log = RoundTripLog)
         => /\ Len(recorded_track') = 3
            /\ \A i \in 1..3 :
                  /\ recorded_track'[i][2] = RoundTripLog[i][2]
                  /\ recorded_track'[i][1] - RoundTripLog[i][1] \in -2..2]_vars

\* the file written from the round-trip log was loaded back by a click on Load
C15_Witness ==
    /\ last.dialog = "load_ok"
    /\ current_file_name = "a.mid"
    /\ saved_log = RoundTripLog
    /\ recorded_track = RoundTripLog
    /\ state["load"] \in {"pressed", "hovered"}

\* C16 as amended: a Save click while the log is empty ends with the empty-log
\* warning: no file is written and the log, current_file_name, is_recording
\* and is_playing_back are unchanged.
C16_SaveClickOnEmptyLog ==
    [][("save" \in last'.clicked /\ recorded_track = <<>>)
         => /\ last'.dialog = "save_empty"
            /\ disk' = disk
            /\ recorded_track' = recorded_track
            /\ current_file_name' = current_file_name
            /\ is_recording' = is_recording
            /\ is_playing_back' = is_playing_back]_vars

\* Save was clicked on an empty log and refused, nothing on disk
C16_Witness ==
    /\ "save" \in last.clicked
    /\ last.dialog = "save_empty"
    /\ recorded_track = <<>>
    /\ ~disk.readable

\* C16 as stated: every save attempted while the log is empty, by the Save
\* click or by the encode operation itself, ends with the empty-log error, no
\* file written and the log, current_file_name, is_recording and
\* is_playing_back unchanged.
C16_AnySaveOnEmptyLog ==
    [][(recorded_track = <<>> /\ last'.dialog \in {"save_empty", "save_ok", "save_failed"})
         => /\ last'.dialog = "save_empty"
            /\ disk' = disk
            /\ recorded_track' = recorded_track
            /\ current_file_name' = current_file_name
            /\ is_recording' = is_recording
            /\ is_playing_back' = is_playing_back]_vars

\* C17: a Save click, whether the save succeeds, fails or is cancelled, leaves
\* the log and is_recording as they were and is_playing_back and the cursor as
\* the playback branch of the same update left them; current_file_name becomes
\* the saved path when the file was written and is unchanged otherwise.
C17_SaveKeepsState ==
    [][LET s == Scheduler(Self) IN
       "save" \in last'.clicked
         => /\ recorded_track' = recorded_track
            /\ is_recording' = is_recording
            /\ is_playing_back' = s.is_playing_back
            /\ playback_note_index' = s.playback_note_index
            /\ IF last'.dialog = "save_ok"
               THEN current_file_name' \in FileNames /\ disk'.readable
               ELSE current_file_name' = current_file_name /\ disk' = disk]_vars

\* the write failed while the loaded song was playing
C17_Witness ==
    /\ "save" \in last.clicked
    /\ last.dialog = "save_failed"
    /\ is_playing_back
    /\ current_file_name = "song.mid"

\* C18: a Sound once stored under a key (note, duration_ms) is never replaced
\* or removed; every Sound a step plays is the one stored under the key of its
\* own note and duration, so the first trigger of a key stores it, a later
\* trigger of the same key plays that same Sound and a trigger of another key
\* never does; every stored Sound is the first take of its key.
C18_CacheSynthesizesOnce ==
    [][/\ \A k \in DOMAIN sound_cache :
             k \in DOMAIN sound_cache' /\ sound_cache'[k] = sound_cache[k]
       /\ \A snd \in last'.played :
             LET k == <<snd.note, snd.duration_ms>>
             IN k \in DOMAIN sound_cache' /\ sound_cache'[k] = snd
       /\ \A k \in DOMAIN sound_cache' :
             /\ sound_cache'[k].take = 1
             /\ <<sound_cache'[k].note, sound_cache'[k].duration_ms>> = k
       /\ (last'.sched = "fired" /\ playback_note_index < Len(recorded_track))
             => \E snd \in last'.played :
                   /\ snd.note = recorded_track[playback_note_index + 1][2]
                   /\ snd.duration_ms = note_duration_ms]_vars

\* note 60 was triggered again at the default duration while the cache held
\* its Sound for both durations
C18_Witness ==
    /\ last.sched = "fired"
    /\ \E snd \in last.played : snd.note = 60 /\ snd.duration_ms = DefaultDurationMs
    /\ <<60, DefaultDurationMs>> \in DOMAIN sound_cache
    /\ <<60, SustainDurationMs>> \in DOMAIN sound_cache

\* C19: a piano key's note is triggered only by the key-down of its keyboard
\* key and by the release of a mouse press on it, once each: no trigger comes
\* from the key-up, wherever the mouse is, so that one press gives one trigger.
C19_OneTriggerPerPress ==
    [][\A b \in last'.clicked \cap KeyButtons :
          \/ key_pressed'[b] /\ ~key_pressed[b]
          \/ "mouse" \in pressed_by[b]]_vars

C21_LogChangesOnlyByRecordingOrLoad ==
    [][recorded_track' # recorded_track =>
          \/ /\ is_recording
             /\ is_recording'
             /\ \E snd \in last'.played :
                   recorded_track' =
                       Append(recorded_track,
                              <<now - recording_start_time, snd.note>>)
          \/ /\ "record" \in last'.clicked
             /\ ~is_recording
             /\ is_recording'
             /\ recorded_track' = <<>>
          \/ /\ "load" \in last'.clicked
             /\ last'.dialog \in {"load_ok", "load_failed"}]_vars

\* a note is played back with the sustain on and the volume changed, and the
\* log is the one that was loaded
C21_Witness ==
    /\ is_playing_back
    /\ last.sched = "fired"
    /\ note_duration_ms = SustainDurationMs
    /\ master_volume # DefaultVolume
    /\ recorded_track = Decode(OneNoteFile.tracks[1])

\* one of the arguments of the call is zero or negative
NonPositiveArgument ==
    tone.frequency <= 0 \/ tone.duration_ms <= 0 \/ tone.sample_rate <= 0

(* C22: generate_tone called with a non-positive frequency, duration_ms or
   sample_rate is rejected with an invalid-parameter error before any
   synthesis, and returns no buffer *)
C22_RejectsNonPositiveArguments ==
    tone.called /\ NonPositiveArgument
        => /\ tone.result.error # "none"
           /\ tone.result.at = "validation"

\* round(a / b) for a >= 0 and b > 0: to the nearest integer, a tie to the even one
RoundDiv(a, b) ==
    LET q == a \div b
        r == a % b
    IN  IF 2 * r > b \/ (2 * r = b /\ q % 2 = 1) THEN q + 1 ELSE q

(* C23: for every positive sample_rate and duration_ms the buffer
   generate_tone returns holds round(sample_rate * duration_ms / 1000) stereo
   frames: the nearest count, not the truncated one *)
C23_FrameCountIsRounded ==
    /\ tone.called
    /\ tone.sample_rate > 0
    /\ tone.duration_ms > 0
    /\ tone.result.error = "none"
    => tone.result.frames = RoundDiv(tone.sample_rate * tone.duration_ms, 1000)

\* the samples of t ms at the sample rate of the call
SamplesOf(t) == TruncDiv(tone.sample_rate * t, 1000)

(* C24: for every duration_ms > 0 shorter than attack + decay + release
   (570 ms), also shorter than the release or the attack alone, generate_tone
   completes without error and returns the full sample count; the attack and
   the decay are written from the start of the envelope and the release is
   written last, over the final samples *)
C24_ShortTonesComplete ==
    /\ tone.called
    /\ tone.sample_rate > 0
    /\ tone.duration_ms > 0
    /\ tone.duration_ms < AttackTimeMs + DecayTimeMs + ReleaseTimeMs
    => LET res == tone.result
           n == tone.sample_rate * tone.duration_ms
       IN  /\ res.error = "none"
           /\ res.frames \in {TruncDiv(n, 1000), RoundDiv(n, 1000)}
           /\ Len(res.writes) = 3
           /\ res.writes[1].part = "attack" /\ res.writes[1].from = 0
           /\ res.writes[2].part = "decay"
           /\ res.writes[2].from = SamplesOf(AttackTimeMs)
           /\ res.writes[3].part = "release" /\ res.writes[3].to = res.frames

(* C25: every playback visual press is eventually cleared by its 200 ms timer,
   also when a second note is triggered less than 200 ms after the first and
   when playback has stopped before the timer fires; a timer that fires
   changes only the playback_pressed of its key, and neither the log nor
   is_recording nor is_playing_back *)
C25_VisualPressIsCleared ==
    /\ \A b \in KeyButtons : playback_pressed[b] ~> ~playback_pressed[b]
    /\ [][timer # NoTimer /\ timer' = NoTimer
             => /\ recorded_track' = recorded_track
                /\ is_recording' = is_recording
                /\ is_playing_back' = is_playing_back
                /\ \A b \in Buttons :
                      playback_pressed'[b] # playback_pressed[b]
                          => b = KeyButton(timer.note)]_vars

(* C26: note_duration_ms is 1000 or 2000 and every key (note, duration) of the
   cache has its note in 60..84 and its duration in {1000, 2000}, so the cache
   holds at most 50 entries, also after MIDI files were loaded and played *)
C26_CacheKeysAreBounded ==
    /\ note_duration_ms \in {DefaultDurationMs, SustainDurationMs}
    /\ \A k \in DOMAIN sound_cache :
          /\ k[1] \in start_midi..end_midi
          /\ k[2] \in {DefaultDurationMs, SustainDurationMs}
    /\ Cardinality(DOMAIN sound_cache) <= 2 * (end_midi - start_midi + 1)

(* C27: once playback has started on a non-empty log and the user does nothing
   while the clock advances and update ticks occur, playback eventually ends
   by itself: is_playing_back is false and the Play indicator is off *)
C27_UnattendedPlaybackEnds ==
    is_playing_back
        ~> (last.sched = "ended" /\ ~is_playing_back /\ ~is_active["play"])

\* playback with sustain came to its natural end
C27_Witness ==
    /\ last.sched = "ended"
    /\ ~is_playing_back
    /\ ~is_active["play"]
    /\ note_duration_ms = SustainDurationMs
    /\ playback_note_index = Len(recorded_track)
    /\ Len(recorded_track) = 2

(* C28: after every click handler and every update tick the Record indicator
   equals is_recording and the Play indicator equals is_playing_back, for
   every sequence of Record, Play, Stop and Load clicks, Play attempts on an
   empty log and natural ends of playback *)
C28_IndicatorsFollowFlags ==
    /\ is_active["record"] = is_recording
    /\ is_active["play"] = is_playing_back

\* a Play click on the empty log that a recording without notes has left
C28_Witness ==
    /\ "play" \in last.clicked
    /\ recorded_track = <<>>
    /\ ~is_playing_back
    /\ ~is_active["play"]
    /\ ~is_active["record"]

(* C29: whenever is_playing_back holds the log is not empty and
   0 <= playback_note_index <= len(recorded_track); no step changes the log
   while is_playing_back stays true *)
C29_PlaybackLogIsStable ==
    [][is_playing_back'
          => /\ recorded_track' # <<>>
             /\ playback_note_index' \in 0..Len(recorded_track')
             /\ is_playing_back => recorded_track' = recorded_track]_vars

\* playback waits for the tail with the cursor at the end of a two-event log
C29_Witness ==
    /\ is_playing_back
    /\ last.sched = "wait"
    /\ Len(recorded_track) = 2
    /\ playback_note_index = Len(recorded_track)

(* C30: within a playback session, which starts at cursor 0, the events are
   triggered in log order, one per firing tick and each at most once, never at
   a tick whose elapsed time is below the timestamp of the event, and playback
   does not end by itself before every event was triggered *)
C30_EventsFireInOrder ==
    [][/\ last'.sched = "fired"
          => /\ is_playing_back
             /\ playback_note_index < Len(recorded_track)
             /\ recorded_track' = recorded_track
             /\ playback_note_index' = playback_note_index + 1
             /\ now - playback_start_time
                    >= recorded_track[playback_note_index + 1][1]
             /\ {snd.note : snd \in last'.played}
                    = {recorded_track[playback_note_index + 1][2]}
       /\ last'.sched = "ended"
          => playback_note_index = Len(recorded_track)
       /\ playback_note_index' # playback_note_index
          => \/ last'.sched = "fired"
             \/ /\ "play" \in last'.clicked
                /\ is_playing_back'
                /\ playback_note_index' = 0]_vars

\* the second event of the song is triggered, 200 ms or more into the session
C30_Witness ==
    /\ last.sched = "fired"
    /\ playback_note_index = 2
    /\ now - playback_start_time >= recorded_track[2][1]
    /\ recorded_track[2][1] > 0

(* C31: for every non-empty log with non-decreasing timestamps and notes in
   0..127, loading the file that a save of the log wrote gives a log of the
   same length with the same notes in the same order, each timestamp at most
   the original one and at most 2 ms below it, however many events there are *)
C31_RoundTripWithinTwoMs ==
    [][(/\ last'.dialog = "load_ok"
        /\ current_file_name' = "a.mid"
        /\ saved_log # <<>>)
         => /\ Len(recorded_track') = Len(saved_log)
            /\ \A i \in 1..Len(saved_log) :
                  /\ recorded_track'[i][2] = saved_log[i][2]
                  /\ recorded_track'[i][1] <= saved_log[i][1]
                  /\ saved_log[i][1] - recorded_track'[i][1] <= 2]_vars
====
